---------------------------- MODULE Spec2Model ----------------------------
(***************************************************************************)
(* A model of typst-build (src/src/main.rs): the run of main (name         *)
(* validation, template compile, thumbnail render, copy_files) over a      *)
(* file system, and the two text transforms of copy_files (the import      *)
(* rewrite of .typ files and the #:schema stripping of typst.toml).        *)
(*                                                                         *)
(* Text and paths are sequences of one-character strings, so that the      *)
(* prefix tests, the glob match and the regular expression of the source   *)
(* are computed character by character.                                    *)
(***************************************************************************)
EXTENDS Integers, Sequences, FiniteSets, TLC

VARIABLES
    pc,                  \* position of main: "validate", "template", "thumbnail",
                         \* "copy", "walk", "done", "failed"; or of a transform
                         \* run: "input", "rewritten", "stripped"
    cfg,                 \* the parsed manifest and the command line
    fs,                  \* the file system: path (relative to the working
                         \* directory) -> [kind, content]
    compilerCalls,       \* the typst invocations made so far, in order
    directory_patterns,  \* copy_files' directory_patterns
    started,             \* whether WalkDir has yielded the root entry
    stack,               \* WalkDir's stack of open directories
    visited,             \* the relative paths WalkDir has yielded, in order
    err,                 \* the error main returned, "" when none
    text,                \* input of a transform run
    result,              \* transform applied once
    result2              \* transform applied to its own output

vars == <<pc, cfg, fs, compilerCalls, directory_patterns, started, stack,
          visited, err, text, result, result2>>

None == <<"<none>">>

-----------------------------------------------------------------------------
(* Bounds of the model *)

\* longest path (in characters) the modelled file system accepts; beyond it
\* create_dir_all / copy / write fail as with ENAMETOOLONG
MaxPathLen == 26
\* most pieces a typst.toml content of a stripping run is built from
MaxTomlLen == 5
\* most import statements a .typ content of a rewrite run is built from
MaxStatements == 2

-----------------------------------------------------------------------------
(* Strings *)

RECURSIVE Concat(_)
Concat(ss) == IF ss = <<>> THEN <<>> ELSE Head(ss) \o Concat(Tail(ss))

StartsWith(s, p) == Len(p) <= Len(s) /\ SubSeq(s, 1, Len(p)) = p

EndsWith(s, p) == Len(p) <= Len(s) /\ SubSeq(s, Len(s) - Len(p) + 1, Len(s)) = p

Drop(s, n) == SubSeq(s, n + 1, Len(s))

\* index of the first c in s at or after i, 0 when there is none
RECURSIVE IndexFrom(_, _, _)
IndexFrom(s, c, i) ==
    IF i > Len(s) THEN 0
    ELSE IF s[i] = c THEN i
    ELSE IndexFrom(s, c, i + 1)

\* index of the last c in s, 0 when there is none
RECURSIVE LastIndex(_, _, _)
LastIndex(s, c, i) ==
    IF i < 1 THEN 0
    ELSE IF s[i] = c THEN i
    ELSE LastIndex(s, c, i - 1)

\* s split at every c (str::split)
RECURSIVE Split(_, _)
Split(s, c) ==
    LET i == IndexFrom(s, c, 1) IN
    IF i = 0 THEN <<s>>
    ELSE <<SubSeq(s, 1, i - 1)>> \o Split(Drop(s, i), c)

\* char::is_whitespace on the characters of the model
IsWhitespace(c) == c \in {" ", "\t", "\n", "\r"}

\* str::trim_start
RECURSIVE TrimStart(_)
TrimStart(s) ==
    IF s # <<>> /\ IsWhitespace(Head(s)) THEN TrimStart(Tail(s)) ELSE s

\* str::trim_end_matches('/')
RECURSIVE TrimEndSep(_)
TrimEndSep(s) ==
    IF s # <<>> /\ s[Len(s)] = "/" THEN TrimEndSep(SubSeq(s, 1, Len(s) - 1))
    ELSE s

-----------------------------------------------------------------------------
(* Paths (std::path on a platform whose MAIN_SEPARATOR is '/') *)

SEP == <<"/">>

\* the components of a relative path: empty and "." components are dropped
Components(p) == SelectSeq(Split(p, "/"), LAMBDA c : c # <<>> /\ c # <<".">>)

RECURSIVE JoinComponents(_)
JoinComponents(cs) ==
    IF cs = <<>> THEN <<>>
    ELSE IF Len(cs) = 1 THEN cs[1]
    ELSE cs[1] \o SEP \o JoinComponents(Tail(cs))

\* the key of a path in fs
Normalize(p) == JoinComponents(Components(p))

\* Path::join of a relative path
Join(a, b) == Normalize(a \o SEP \o b)

\* Path::parent of a normalized non-empty path
Parent(p) ==
    LET i == LastIndex(p, "/", Len(p)) IN
    IF i = 0 THEN <<>> ELSE SubSeq(p, 1, i - 1)

\* Path::file_name of a normalized path
FileName(p) ==
    LET cs == Components(p) IN
    IF cs = <<>> \/ cs[Len(cs)] = <<".", ".">> THEN None ELSE cs[Len(cs)]

\* Path::extension: the part of the file name after its last '.', none when
\* the name has no '.' or only a leading one
Extension(p) ==
    LET n == FileName(p)
        i == LastIndex(n, ".", Len(n)) IN
    IF n = None \/ i <= 1 THEN None ELSE Drop(n, i)

\* Path::strip_prefix of a path that lies under base
StripPrefix(p, base) ==
    IF base = <<>> THEN p
    ELSE IF p = base THEN <<>>
    ELSE Drop(p, Len(base) + 1)

\* whether normalized path p is base or lies under it
Under(p, base) == base = <<>> \/ p = base \/ StartsWith(p, base \o SEP)

\* p and its ancestors up to the working directory, p included
Ancestors(p) ==
    LET cs == Components(p) IN
    { JoinComponents(SubSeq(cs, 1, k)) : k \in 1..Len(cs) }

-----------------------------------------------------------------------------
(* globset, as Glob::new(pattern) configures it: every option at its       *)
(* default, so literal_separator is off and `*`, `?` and a class match '/' *)
(* like any other character.  The patterns of the model use `*`, `?`,      *)
(* `[...]` (optionally negated by `!` or `^`, no ranges) and literals; they *)
(* use no `**`, no `{}` and no backslash.                                  *)

\* index of the ']' closing the class opened at p[i] = "[", 0 when unclosed;
\* a ']' right after the opening (and the negation mark) is a member
ClassClose(p, i) ==
    LET neg == i + 1 <= Len(p) /\ p[i + 1] \in {"!", "^"}
        first == IF neg THEN i + 2 ELSE i + 1 IN
    IndexFrom(p, "]", first + 1)

ClassNegated(p, i) == i + 1 <= Len(p) /\ p[i + 1] \in {"!", "^"}

ClassMembers(p, i) ==
    LET first == IF ClassNegated(p, i) THEN i + 2 ELSE i + 1 IN
    { p[k] : k \in first..(ClassClose(p, i) - 1) }

\* Glob::new(pattern) succeeds: every class is closed
RECURSIVE GlobValidFrom(_, _)
GlobValidFrom(p, i) ==
    IF i > Len(p) THEN TRUE
    ELSE IF p[i] = "["
         THEN ClassClose(p, i) # 0 /\ GlobValidFrom(p, ClassClose(p, i) + 1)
    ELSE GlobValidFrom(p, i + 1)

GlobValid(p) == GlobValidFrom(p, 1)

\* GlobBuilder's default: literal_separator(false)
StarMatchesSeparator == TRUE

\* whether wildcard tokens may consume character c
WildcardTakes(c) == StarMatchesSeparator \/ c # "/"

\* the glob p from index i matches the whole of s from index j
RECURSIVE GlobMatchFrom(_, _, _, _)
GlobMatchFrom(p, i, s, j) ==
    IF i > Len(p) THEN j > Len(s)
    ELSE IF p[i] = "*"
         THEN \/ GlobMatchFrom(p, i + 1, s, j)
              \/ /\ j <= Len(s)
                 /\ WildcardTakes(s[j])
                 /\ GlobMatchFrom(p, i, s, j + 1)
    ELSE IF p[i] = "?"
         THEN /\ j <= Len(s)
              /\ WildcardTakes(s[j])
              /\ GlobMatchFrom(p, i + 1, s, j + 1)
    ELSE IF p[i] = "["
         THEN /\ j <= Len(s)
              /\ WildcardTakes(s[j])
              /\ (s[j] \in ClassMembers(p, i)) # ClassNegated(p, i)
              /\ GlobMatchFrom(p, ClassClose(p, i) + 1, s, j + 1)
    ELSE /\ j <= Len(s)
         /\ s[j] = p[i]
         /\ GlobMatchFrom(p, i + 1, s, j + 1)

\* GlobSet::is_match for the set built from exclude_patterns: every
\* pattern of the list is added to the set, the literal ones too
GlobSetIsMatch(exclude_patterns, rel_str) ==
    \E k \in 1..Len(exclude_patterns) :
        GlobMatchFrom(exclude_patterns[k], 1, rel_str, 1)

has_glob_metacharacters(s) == \E i \in 1..Len(s) : s[i] \in {"*", "?", "[", "]"}

-----------------------------------------------------------------------------
(* The file system *)

Dir == [kind |-> "dir", content |-> <<>>]
File(c) == [kind |-> "file", content |-> c]

Exists(f, p) == p = <<>> \/ p \in DOMAIN f
IsDir(f, p) == p = <<>> \/ (p \in DOMAIN f /\ f[p].kind = "dir")
IsFile(f, p) == p \in DOMAIN f /\ f[p].kind = "file"

\* the names in directory d, as read_dir lists them
ReadDir(f, d) == { FileName(p) : p \in { q \in DOMAIN f : Parent(q) = d } }

\* fs::create_dir_all(p): "ok" with p and its missing ancestors created, or
\* the error it returns
CreateDirAllError(f, p) ==
    IF Len(p) > MaxPathLen THEN "ENAMETOOLONG"
    ELSE IF \E a \in Ancestors(p) : IsFile(f, a) THEN "ENOTDIR"
    ELSE ""

CreateDirAll(f, p) ==
    [q \in DOMAIN f \cup Ancestors(p) |-> IF q \in DOMAIN f THEN f[q] ELSE Dir]

\* fs::write(p, c) and the destination side of fs::copy: the file is created
\* or truncated; its parent directory must exist
WriteError(f, p) ==
    IF Len(p) > MaxPathLen THEN "ENAMETOOLONG"
    ELSE IF ~IsDir(f, Parent(p)) THEN "ENOENT"
    ELSE IF IsDir(f, p) THEN "EISDIR"
    ELSE ""

WriteFile(f, p, c) ==
    [q \in DOMAIN f \cup {p} |-> IF q = p THEN File(c) ELSE f[q]]

-----------------------------------------------------------------------------
(* The manifest transform of copy_files: lines starting with #:schema go *)

SchemaMark == <<"#", ":", "s", "c", "h", "e", "m", "a">>

\* str::lines: the text is cut after every "\n"; a line loses its "\n" and
\* then a "\r" before it; a last line without "\n" is kept as it is, and no
\* empty line follows a final "\n"
RECURSIVE Lines(_)
Lines(s) ==
    LET i == IndexFrom(s, "\n", 1) IN
    IF s = <<>> THEN <<>>
    ELSE IF i = 0 THEN <<s>>
    ELSE LET l == SubSeq(s, 1, i - 1) IN
         <<IF EndsWith(l, <<"\r">>) THEN SubSeq(l, 1, Len(l) - 1) ELSE l>>
             \o Lines(Drop(s, i))

\* [&str]::join("\n")
RECURSIVE JoinLines(_)
JoinLines(ls) ==
    IF ls = <<>> THEN <<>>
    ELSE IF Len(ls) = 1 THEN ls[1]
    ELSE ls[1] \o <<"\n">> \o JoinLines(Tail(ls))

\* KeepLine as it would be without trim_start (a faulty variant)
KeepLine_NoTrim(line) == ~StartsWith(line, SchemaMark)

\* the filter closure: !line.trim_start().starts_with("#:schema")
KeepLine(line) == ~StartsWith(TrimStart(line), SchemaMark)

StripSchemaLines(content) == JoinLines(SelectSeq(Lines(content), KeepLine))

-----------------------------------------------------------------------------
(* The import rewrite of copy_files *)

ImportWord == <<"#", "i", "m", "p", "o", "r", "t">>
Quote == "\""
UpSegment == <<".", ".", "/">>
PreviewPrefix == <<"@", "p", "r", "e", "v", "i", "e", "w", "/">>

At(s, i, lit) == i >= 1 /\ i + Len(lit) - 1 <= Len(s) /\ SubSeq(s, i, i + Len(lit) - 1) = lit

\* the index after the longest run of whitespace starting at i (\s+, \s*)
RECURSIVE SkipWhitespace(_, _)
SkipWhitespace(s, i) ==
    IF i <= Len(s) /\ IsWhitespace(s[i]) THEN SkipWhitespace(s, i + 1) ELSE i

\* the index after the longest run of "../" starting at i ((?:\.\./)+)
RECURSIVE SkipUps(_, _)
SkipUps(s, i) == IF At(s, i, UpSegment) THEN SkipUps(s, i + 3) ELSE i

\* The match of
\*     #import\s+"((?:\.\./)+<entrypoint_name>)((?::\s*[^"]*)?)"
\* that starts at index i of s: [ok, last, specifier].  The entry point's
\* name is escaped (regex::escape), so it matches itself only.  No part of
\* the expression has two ways to match: the whitespace run ends at the
\* quote, the run of "../" ends where the name (which holds no '/') starts,
\* and the specifier, which holds no quote, ends at the next quote.
ImportMatch(s, i, entrypoint_name) ==
    LET ws == i + Len(ImportWord)
        q1 == SkipWhitespace(s, ws)
        up == q1 + 1
        nm == SkipUps(s, up)
        e  == nm + Len(entrypoint_name)
        q2 == IndexFrom(s, Quote, e + 1)
        no == [ok |-> FALSE, last |-> 0, specifier |-> <<>>]
    IN
    IF ~(/\ At(s, i, ImportWord)
         /\ q1 > ws
         /\ At(s, q1, <<Quote>>)
         /\ nm > up
         /\ At(s, nm, entrypoint_name)
         /\ e <= Len(s))
    THEN no
    ELSE IF s[e] = ":" /\ q2 # 0
         THEN [ok |-> TRUE, last |-> q2, specifier |-> SubSeq(s, e, q2 - 1)]
    ELSE IF s[e] = Quote
         THEN [ok |-> TRUE, last |-> e, specifier |-> <<>>]
    ELSE no

\* format!("@preview/{}:{}", package_name, package_version)
PackageImport(package_name, package_version) ==
    PreviewPrefix \o package_name \o <<":">> \o package_version

\* the replacement closure: format!("#import \"{}{}\"", package_import, specifier)
Replacement(package_import, specifier) ==
    ImportWord \o <<" ", Quote>> \o package_import \o specifier \o <<Quote>>

\* Regex::replace_all from index i: the leftmost matches, none overlapping,
\* each replaced; the text between them is kept
RECURSIVE ReplaceAllFrom(_, _, _, _)
ReplaceAllFrom(s, i, entrypoint_name, package_import) ==
    LET m == ImportMatch(s, i, entrypoint_name) IN
    IF i > Len(s) THEN <<>>
    ELSE IF m.ok
         THEN Replacement(package_import, m.specifier)
                  \o ReplaceAllFrom(s, m.last + 1, entrypoint_name, package_import)
    ELSE <<s[i]>> \o ReplaceAllFrom(s, i + 1, entrypoint_name, package_import)

\* the .typ branch of copy_files, once the entry point has a file name
RewriteImports(content, package_name, package_version, package_entrypoint) ==
    ReplaceAllFrom(content, 1, FileName(package_entrypoint),
                   PackageImport(package_name, package_version))

-----------------------------------------------------------------------------
(* The inputs of a run *)

PackageName == <<"n">>
PackageVersion == <<"1">>
OtherName == <<"m">>
ManifestName == <<"t", "y", "p", "s", "t", ".", "t", "o", "m", "l">>
TypExtension == <<"t", "y", "p">>
\* package.entrypoint.as_deref().unwrap_or("main.typ")
DefaultEntrypoint == <<"m", "a", "i", "n", ".", "t", "y", "p">>
\* the two values --output-dir accepts
OutputDirs == { <<"o", "u", "t", "p", "u", "t">>,
                <<"u", "n", "i", "v", "e", "r", "s", "e">> }

\* a text both transforms change: a #:schema line, then an import of the
\* entry point with two spaces after #import, then a final newline
SampleText ==
    SchemaMark \o <<"\n">> \o ImportWord \o <<" ", " ", Quote>> \o UpSegment
        \o DefaultEntrypoint \o <<Quote, ":", " ", "f", "\n">>

\* The source trees of the model, each a function from the path relative to
\* the package directory to the entry there.  The files of TreeText hold
\* SampleText, so that a transform applied to one of them shows.
TreeLiteral ==
    ( <<"f">> :> Dir ) @@
    ( <<"f", "/", "a">> :> File(<<"x">>) ) @@
    ( <<"f", "b">> :> File(<<"x">>) ) @@
    ( ManifestName :> File(<<"x">>) )

TreeGlob ==
    ( <<"i", ".", "p">> :> File(<<"x">>) ) @@
    ( <<"s">> :> Dir ) @@
    ( <<"s", "/", "i", ".", "p">> :> File(<<"x">>) ) @@
    ( <<"s", "/", "d">> :> Dir ) @@
    ( <<"s", "/", "d", "/", "i", ".", "p">> :> File(<<"x">>) )

TreeText ==
    ( ManifestName :> File(SampleText) ) @@
    ( <<"s">> :> Dir ) @@
    ( (<<"s", "/">> \o ManifestName) :> File(SampleText) ) @@
    ( (<<"s", "/", "t", ".">> \o TypExtension) :> File(SampleText) ) @@
    ( <<"b">> :> File(SampleText) )

Trees == { TreeLiteral, TreeGlob, TreeText }

\* The exclude lists of the model.
ExcludeLists ==
    { <<>>,
      << <<"f">> >>,
      << <<"f", "/">> >>,
      << <<"g", "/">> >>,
      << <<".", "/", "f">> >>,
      << <<"f", "b">> >>,
      << <<"*", ".", "p">> >>,
      << <<"s", "/", "*", ".", "p">> >>,
      << <<"?">> >>,
      << <<"[", "s", "]">> >>,
      << <<"*">> >>,
      << <<"[">> >>,
      << <<"f">>, <<"[">> >>,
      << <<"o", "u", "t", "p", "u", "t">> >> }

\* The directory holding typst.toml, as main sees it: its key in fs and what
\* Path::file_name gives for it.  The run is started from the parent of the
\* package directory (key "n" or "m") or from the package directory itself,
\* which is then named "../n" (file name "n") or "." (no file name).
TomlDirs ==
    { [key |-> PackageName, file_name |-> PackageName],
      [key |-> OtherName, file_name |-> OtherName],
      [key |-> <<>>, file_name |-> PackageName],
      [key |-> <<>>, file_name |-> None] }

\* the [template] table: absent, or its three optional keys
Templates ==
    { [present |-> FALSE, path |-> None, entrypoint |-> None, thumbnail |-> None],
      [present |-> TRUE, path |-> <<"t">>, entrypoint |-> None,
       thumbnail |-> <<"t", ".", "p">>],
      [present |-> TRUE, path |-> <<"t">>, entrypoint |-> DefaultEntrypoint,
       thumbnail |-> None],
      [present |-> TRUE, path |-> <<"t">>, entrypoint |-> DefaultEntrypoint,
       thumbnail |-> <<"t", ".", "p">>] }

\* the inputs of the runs that exercise every stage of main
Configs ==
    [ toml_dir : TomlDirs, name : {PackageName}, version : {PackageVersion},
      exclude : { <<>>, << <<"f">> >>, << <<"[">> >> },
      entrypoint : {DefaultEntrypoint}, template : Templates,
      output_dir : { <<"o", "u", "t", "p", "u", "t">> }, tree : {TreeLiteral} ]

NoTemplate == [present |-> FALSE, path |-> None, entrypoint |-> None, thumbnail |-> None]

\* the inputs of the runs that exercise copy_files: a package whose name
\* matches its directory and that declares no template
CopyConfigs ==
    [ toml_dir : { d \in TomlDirs : d.file_name = PackageName },
      name : {PackageName}, version : {PackageVersion},
      exclude : ExcludeLists, entrypoint : {DefaultEntrypoint},
      template : {NoTemplate}, output_dir : OutputDirs, tree : Trees ]

\* the tree of c placed at the package directory
InitialFs(c) ==
    LET keys == { Join(c.toml_dir.key, r) : r \in DOMAIN c.tree } \cup
                    Ancestors(c.toml_dir.key) IN
    [ p \in keys |->
        IF Under(p, c.toml_dir.key) /\ StripPrefix(p, c.toml_dir.key) \in DOMAIN c.tree
        THEN c.tree[StripPrefix(p, c.toml_dir.key)]
        ELSE Dir ]

\* toml_dir in main, source_dir in copy_files
source_dir == cfg.toml_dir.key

\* output_base.join(name).join(version)
output_dir == Join(Join(cfg.output_dir, cfg.name), cfg.version)

\* what lies under directory d of file system f, by path relative to d
TreeAt(f, d) ==
    LET keys == { p \in DOMAIN f : Under(p, d) /\ p # d } IN
    [ r \in { StripPrefix(p, d) : p \in keys } |-> f[Join(d, r)] ]

-----------------------------------------------------------------------------
(* main, up to the call of copy_files *)

Fail(reason) ==
    /\ pc' = "failed"
    /\ err' = reason

\* validate_package_name
validate_package_name ==
    /\ pc = "validate"
    /\ IF cfg.toml_dir.file_name = None
       THEN Fail("Could not determine parent directory name")
       ELSE IF cfg.name # cfg.toml_dir.file_name
       THEN Fail("Package name does not match parent directory name")
       ELSE pc' = "template" /\ err' = err
    /\ UNCHANGED <<cfg, fs, compilerCalls, directory_patterns, started, stack,
                   visited, text, result, result2>>

\* if let (Some(path), Some(entrypoint)) = (&template.path, &template.entrypoint)
TemplateDeclared ==
    /\ cfg.template.present
    /\ cfg.template.path # None
    /\ cfg.template.entrypoint # None

\* Path::new(package_name).join(template_path).join(template_entrypoint)
template_full_path ==
    Join(Join(cfg.name, cfg.template.path), cfg.template.entrypoint)

\* compile_template as it would be if the exit status were not looked at
\* (a faulty variant)
compile_template_IgnoreStatus ==
    /\ pc = "template"
    /\ TemplateDeclared
    /\ \E success \in BOOLEAN :
          /\ compilerCalls' = Append(compilerCalls,
                [command |-> "compile", input |-> template_full_path,
                 output |-> None, success |-> success])
          /\ pc' = IF cfg.template.thumbnail # None THEN "thumbnail" ELSE "copy"
          /\ err' = err
    /\ UNCHANGED <<cfg, fs, directory_patterns, started, stack, visited,
                   text, result, result2>>

\* compile_template: typst is run; a launch failure or a non-zero exit
\* status is an error
compile_template ==
    /\ pc = "template"
    /\ TemplateDeclared
    /\ \E success \in BOOLEAN :
          /\ compilerCalls' = Append(compilerCalls,
                [command |-> "compile", input |-> template_full_path,
                 output |-> None, success |-> success])
          /\ IF success
             THEN /\ pc' = IF cfg.template.thumbnail # None THEN "thumbnail" ELSE "copy"
                  /\ err' = err
             ELSE Fail("Template compilation failed")
    /\ UNCHANGED <<cfg, fs, directory_patterns, started, stack, visited,
                   text, result, result2>>

\* main, lines 273-281, when no template is to be built
SkipTemplate ==
    /\ pc = "template"
    /\ ~TemplateDeclared
    /\ pc' = "copy"
    /\ UNCHANGED <<cfg, fs, compilerCalls, directory_patterns, started, stack,
                   visited, err, text, result, result2>>

\* generate_thumbnail
generate_thumbnail ==
    /\ pc = "thumbnail"
    /\ \E success \in BOOLEAN :
          /\ compilerCalls' = Append(compilerCalls,
                [command |-> "thumbnail", input |-> template_full_path,
                 output |-> Join(cfg.name, cfg.template.thumbnail),
                 success |-> success])
          /\ IF success
             THEN pc' = "copy" /\ err' = err
             ELSE Fail("Thumbnail generation failed")
    /\ UNCHANGED <<cfg, fs, directory_patterns, started, stack, visited,
                   text, result, result2>>

-----------------------------------------------------------------------------
(* copy_files *)

\* The closure of directory_patterns.iter().any(..) as it would be if the
\* prefix were tested without the separator (a faulty variant)
ExcludedByPattern_NoSeparator(rel_str, pattern) ==
    rel_str = pattern \/ StartsWith(rel_str, pattern)

\* rel_str == pattern || rel_str.starts_with(pattern + MAIN_SEPARATOR)
ExcludedByPattern(rel_str, pattern) ==
    rel_str = pattern \/ StartsWith(rel_str, pattern \o SEP)

excluded_by_dir(patterns, rel_str) ==
    \E pattern \in patterns : ExcludedByPattern(rel_str, pattern)

\* Lines 149-168: the patterns without glob metacharacters that end with
\* '/' or name a directory under source_dir in file system f, each without
\* its trailing separators
DirectoryPatterns(f, exclude_patterns) ==
    { TrimEndSep(exclude_patterns[k]) :
        k \in { j \in 1..Len(exclude_patterns) :
                  /\ ~has_glob_metacharacters(exclude_patterns[j])
                  /\ \/ EndsWith(exclude_patterns[j], SEP)
                     \/ IsDir(f, Join(source_dir, exclude_patterns[j])) } }

\* Lines 137-168: the destination is created, then the glob set is built,
\* then the directory patterns are computed
CopyStart ==
    /\ pc = "copy"
    /\ LET created == CreateDirAll(fs, output_dir) IN
       IF CreateDirAllError(fs, output_dir) # ""
       THEN /\ Fail(CreateDirAllError(fs, output_dir))
            /\ UNCHANGED <<fs, directory_patterns>>
       ELSE IF \E k \in 1..Len(cfg.exclude) : ~GlobValid(cfg.exclude[k])
       THEN /\ Fail("invalid glob")
            /\ fs' = created
            /\ UNCHANGED directory_patterns
       ELSE /\ pc' = "walk"
            /\ err' = err
            /\ fs' = created
            /\ directory_patterns' = DirectoryPatterns(created, cfg.exclude)
    /\ UNCHANGED <<cfg, compilerCalls, started, stack, visited, text, result,
                   result2>>

\* Lines 198-236: what is written for the file at src_path holding content
Transformed(src_path, content) ==
    IF FileName(src_path) = ManifestName
    THEN [error |-> "", content |-> StripSchemaLines(content)]
    ELSE IF Extension(src_path) = TypExtension
    THEN IF FileName(cfg.entrypoint) = None
         THEN [error |-> "Invalid entrypoint name", content |-> <<>>]
         ELSE [error |-> "",
               content |-> RewriteImports(content, cfg.name, cfg.version,
                                          cfg.entrypoint)]
    ELSE [error |-> "", content |-> content]

\* Lines 172-237, the body of the loop for the entry at rel_str in file
\* system f: [error, fs]
LoopBody(f, rel_str) ==
    LET src_path == Join(source_dir, rel_str)
        dst_path == Join(output_dir, rel_str)
        out      == Transformed(src_path, f[src_path].content)
    IN
    IF GlobSetIsMatch(cfg.exclude, rel_str) THEN [error |-> "", fs |-> f]
    ELSE IF excluded_by_dir(directory_patterns, rel_str) THEN [error |-> "", fs |-> f]
    ELSE IF IsDir(f, src_path)
    THEN IF CreateDirAllError(f, dst_path) # ""
         THEN [error |-> CreateDirAllError(f, dst_path), fs |-> f]
         ELSE [error |-> "", fs |-> CreateDirAll(f, dst_path)]
    ELSE IF out.error # "" THEN [error |-> out.error, fs |-> f]
    ELSE IF WriteError(f, dst_path) # ""
    THEN [error |-> WriteError(f, dst_path), fs |-> f]
    ELSE [error |-> "", fs |-> WriteFile(f, dst_path, out.content)]

(* WalkDir.  A directory is opened (read_dir) when its entry is yielded,      *)
(* before the loop body runs for it, and is read as the walk asks for its    *)
(* next entry.  An entry created in a directory after it was opened may or   *)
(* may not be returned by it: both are modelled.                             *)

Frame(f, rel_str) ==
    [dir |-> rel_str, pending |-> ReadDir(f, Join(source_dir, rel_str))]

\* the stack without the exhausted directories on top of it
RECURSIVE PopExhausted(_)
PopExhausted(st) ==
    IF st # <<>> /\ st[Len(st)].pending = {} THEN PopExhausted(SubSeq(st, 1, Len(st) - 1))
    ELSE st

\* the entries of g that f lacks and that lie in a directory open in st
CreatedInOpen(f, g, st) ==
    { p \in DOMAIN g \ DOMAIN f :
        \E k \in 1..Len(st) : Parent(p) = Join(source_dir, st[k].dir) }

Shown(st, seen) ==
    [ k \in 1..Len(st) |->
        [ st[k] EXCEPT !.pending =
            @ \cup { FileName(p) : p \in { q \in seen :
                                     Parent(q) = Join(source_dir, st[k].dir) } } ] ]

\* one iteration of the loop over WalkDir: entry rel_str is yielded with the
\* walk's stack st, and the body runs
Iteration(st, rel_str) ==
    LET r == LoopBody(fs, rel_str) IN
    /\ visited' = Append(visited, rel_str)
    /\ IF r.error # ""
       THEN /\ Fail(r.error)
            /\ stack' = st
            /\ fs' = fs
       ELSE /\ pc' = pc
            /\ err' = err
            /\ fs' = r.fs
            /\ \E seen \in SUBSET CreatedInOpen(fs, r.fs, st) :
                  stack' = Shown(st, seen)

\* the first iteration: WalkDir yields source_dir itself
WalkRoot ==
    /\ pc = "walk"
    /\ ~started
    /\ started' = TRUE
    /\ Iteration(<<Frame(fs, <<>>)>>, <<>>)
    /\ UNCHANGED <<cfg, compilerCalls, directory_patterns, text, result, result2>>

\* a later iteration: the next entry of the innermost directory that has one
WalkEntry ==
    /\ pc = "walk"
    /\ started
    /\ LET st == PopExhausted(stack) IN
       /\ st # <<>>
       /\ \E name \in st[Len(st)].pending :
             LET rel_str == Join(st[Len(st)].dir, name)
                 rest    == [st EXCEPT ![Len(st)].pending = @ \ {name}]
             IN
             Iteration(IF IsDir(fs, Join(source_dir, rel_str))
                       THEN Append(rest, Frame(fs, rel_str))
                       ELSE rest,
                       rel_str)
    /\ UNCHANGED <<cfg, compilerCalls, directory_patterns, started, text,
                   result, result2>>

\* WalkDir is exhausted: copy_files returns Ok(()) and main reports success
WalkEnd ==
    /\ pc = "walk"
    /\ started
    /\ PopExhausted(stack) = <<>>
    /\ pc' = "done"
    /\ stack' = <<>>
    /\ UNCHANGED <<cfg, fs, compilerCalls, directory_patterns, started,
                   visited, err, text, result, result2>>

-----------------------------------------------------------------------------
(* The transforms run on their own: the text of a file is an input, the   *)
(* transform is applied to it, and the rewrite is applied again to what   *)
(* it wrote (a second run over the first run's output).                   *)

\* the pieces a typst.toml of a stripping run is built from
TomlPieces == { <<"\n">>, <<"\r">>, <<" ">>, <<"x">>, <<"#">>, SchemaMark }

\* the import statements a .typ file of a rewrite run is built from:
\* #import, whitespace, a quote, a path, and what follows the path
ImportPaths ==
    { UpSegment \o DefaultEntrypoint,
      UpSegment \o UpSegment \o DefaultEntrypoint,
      UpSegment \o <<"o", ".", "t", "y", "p">>,
      UpSegment \o <<"s", "/">> \o DefaultEntrypoint,
      DefaultEntrypoint }

ImportTails ==
    { <<Quote>>,
      <<Quote, ":", " ", "f", "\n">>,
      <<":", " ", "f", Quote>>,
      <<":">> }

Statements ==
    { ImportWord \o ws \o <<Quote>> \o path \o tail :
        ws \in { <<" ">>, <<" ", " ">> }, path \in ImportPaths, tail \in ImportTails }

\* the texts made of at most n pieces
TextsOf(pieces, n) ==
    UNION { { Concat(ps) : ps \in [1..k -> pieces] } : k \in 0..n }

TransformConfig ==
    [ toml_dir |-> [key |-> PackageName, file_name |-> PackageName],
      name |-> PackageName, version |-> PackageVersion, exclude |-> <<>>,
      entrypoint |-> DefaultEntrypoint, template |-> NoTemplate,
      output_dir |-> <<"o", "u", "t", "p", "u", "t">>, tree |-> TreeText ]

\* copy_files' typst.toml branch on a file holding text
StripManifest ==
    /\ pc = "input"
    /\ Transformed(ManifestName, text).error = ""
    /\ result' = Transformed(ManifestName, text).content
    /\ pc' = "stripped"
    /\ UNCHANGED <<cfg, fs, compilerCalls, directory_patterns, started, stack,
                   visited, err, text, result2>>

TypName == <<"t", ".">> \o TypExtension

\* copy_files' .typ branch on a file holding text
RewriteTyp ==
    /\ pc = "input"
    /\ Transformed(TypName, text).error = ""
    /\ result' = Transformed(TypName, text).content
    /\ pc' = "rewritten"
    /\ UNCHANGED <<cfg, fs, compilerCalls, directory_patterns, started, stack,
                   visited, err, text, result2>>

\* copy_files' .typ branch on the file the first run wrote
RewriteAgain ==
    /\ pc = "rewritten"
    /\ Transformed(TypName, result).error = ""
    /\ result2' = Transformed(TypName, result).content
    /\ pc' = "rewritten twice"
    /\ UNCHANGED <<cfg, fs, compilerCalls, directory_patterns, started, stack,
                   visited, err, text, result>>

-----------------------------------------------------------------------------
(* The specifications *)

InitRun(configs) ==
    /\ cfg \in configs
    /\ pc = "validate"
    /\ fs = InitialFs(cfg)
    /\ compilerCalls = <<>>
    /\ directory_patterns = {}
    /\ started = FALSE
    /\ stack = <<>>
    /\ visited = <<>>
    /\ err = ""
    /\ text = <<>>
    /\ result = <<>>
    /\ result2 = <<>>

InitTransform(texts) ==
    /\ cfg = TransformConfig
    /\ pc = "input"
    /\ fs = InitialFs(cfg)
    /\ compilerCalls = <<>>
    /\ directory_patterns = {}
    /\ started = FALSE
    /\ stack = <<>>
    /\ visited = <<>>
    /\ err = ""
    /\ text \in texts
    /\ result = <<>>
    /\ result2 = <<>>

\* main, with every stage
Init == InitRun(Configs)

Next ==
    \/ validate_package_name
    \/ compile_template
    \/ SkipTemplate
    \/ generate_thumbnail
    \/ CopyStart
    \/ WalkRoot
    \/ WalkEntry
    \/ WalkEnd

Spec == Init /\ [][Next]_vars

\* main for a package without a template: copy_files over every tree and
\* exclude list of the model
InitCopy == InitRun(CopyConfigs)

NextCopy ==
    \/ validate_package_name
    \/ SkipTemplate
    \/ CopyStart
    \/ WalkRoot
    \/ WalkEntry
    \/ WalkEnd

SpecCopy == InitCopy /\ [][NextCopy]_vars

\* the manifest transform over every text of at most MaxTomlLen pieces
InitStrip == InitTransform(TextsOf(TomlPieces, MaxTomlLen))

NextStrip == StripManifest

SpecStrip == InitStrip /\ [][NextStrip]_vars

\* the import rewrite over every text of at most MaxStatements statements
InitRewrite == InitTransform(TextsOf(Statements, MaxStatements))

NextRewrite ==
    \/ RewriteTyp
    \/ RewriteAgain

SpecRewrite == InitRewrite /\ [][NextRewrite]_vars

-----------------------------------------------------------------------------
(* The properties *)

\* the output tree: what lies under output_base/name/version, by relative path
OutputTree == TreeAt(fs, output_dir)

\* the pattern at index k of the exclude list is a literal one that ends
\* with '/' or names a directory of the source tree
IsDirectoryRule(k) ==
    /\ \A i \in 1..Len(cfg.exclude[k]) : cfg.exclude[k][i] \notin {"*", "?", "[", "]"}
    /\ \/ cfg.exclude[k][Len(cfg.exclude[k])] = "/"
       \/ /\ cfg.exclude[k] \in DOMAIN cfg.tree
          /\ cfg.tree[cfg.exclude[k]].kind = "dir"

\* relative path r is d or begins with d followed by the separator
AtOrBelow(r, d) == r = d \/ (Len(r) > Len(d) /\ SubSeq(r, 1, Len(d) + 1) = d \o <<"/">>)

\* the directory a directory rule names: the rule without trailing '/'
RuleDirectory(k) == TrimEndSep(cfg.exclude[k])

\* entry e of the source tree is hit by no pattern of the exclude list other
\* than through directory rule k, and neither is a directory above it
\* (its name only begins with the text of rule k)
OnlyTextuallyPrefixed(e, k) ==
    /\ Len(e) > Len(RuleDirectory(k))
    /\ SubSeq(e, 1, Len(RuleDirectory(k))) = RuleDirectory(k)
    /\ Parent(e) = Parent(RuleDirectory(k))
    /\ ~AtOrBelow(e, RuleDirectory(k))
    /\ \A j \in 1..Len(cfg.exclude) :
          /\ ~GlobMatchFrom(cfg.exclude[j], 1, e, 1)
          /\ IsDirectoryRule(j) => ~AtOrBelow(e, RuleDirectory(j))

C2_SingleLevelGlob ==
    (pc = "done" /\ cfg.tree = TreeGlob) =>
        /\ cfg.exclude = << <<"*", ".", "p">> >> =>
              /\ <<"i", ".", "p">> \notin DOMAIN OutputTree
              /\ <<"s", "/", "i", ".", "p">> \in DOMAIN OutputTree
        /\ cfg.exclude = << <<"s", "/", "*", ".", "p">> >> =>
              /\ <<"s", "/", "i", ".", "p">> \notin DOMAIN OutputTree
              /\ <<"i", ".", "p">> \in DOMAIN OutputTree
              /\ <<"s", "/", "d", "/", "i", ".", "p">> \in DOMAIN OutputTree

\* C6: in a completed run every file of the source tree that is in the
\* output and is neither typst.toml at the package root nor a file with
\* extension typ has, in the output, the content it has in the source.
C6_OtherFilesVerbatim ==
    pc = "done" =>
        \A r \in DOMAIN cfg.tree :
            ( /\ cfg.tree[r].kind = "file"
              /\ r \in DOMAIN OutputTree
              /\ r # ManifestName
              /\ Extension(r) # TypExtension )
            => OutputTree[r].content = cfg.tree[r].content

\* C7: when the run fails on an invalid exclude pattern, no entry has been
\* visited and the file system is as it was when the run began.
C7_InvalidGlobTouchesNothing ==
    (pc = "failed" /\ err = "invalid glob") =>
        /\ visited = <<>>
        /\ fs = InitialFs(cfg)

\* C9: the walk never fails for want of a destination parent directory.
C9_ParentAlwaysCreated ==
    ~(pc = "failed" /\ err = "ENOENT")

\* what lies under source_dir when the walk begins: the source tree and,
\* when the destination lies inside source_dir, the destination directories
WalkStartEntries ==
    DOMAIN cfg.tree \cup {<<>>} \cup
        { StripPrefix(p, source_dir) : p \in { q \in Ancestors(output_dir) : Under(q, source_dir) } }

\* C10: the walk visits only entries that lay under source_dir when it
\* began, none of them twice and, once it has ended, all of them; it ends
\* without running into ever longer paths; and copy_files leaves what lies
\* under source_dir as it was.
C10_WalkVisitsSourceOnce ==
    /\ \A i \in 1..Len(visited) : visited[i] \in WalkStartEntries
    /\ \A i, j \in 1..Len(visited) : visited[i] = visited[j] => i = j
    /\ pc = "done" => { visited[i] : i \in 1..Len(visited) } = WalkStartEntries
    /\ pc \in {"walk", "done", "failed"} => TreeAt(fs, source_dir) = cfg.tree
    /\ err # "ENAMETOOLONG"

\* the stages main has been through
ValidationFailed ==
    err \in {"Could not determine parent directory name",
             "Package name does not match parent directory name"}

CopyFilesStarted == pc \in {"walk", "done"} \/ fs # InitialFs(cfg) \/ visited # <<>>

\* C5: the stages run in the order validation, compile, thumbnail, copy,
\* each only after the ones before it succeeded.  After a failed validation
\* typst has not been run and the file system is untouched; typst is run at
\* most twice, first to compile and then for the thumbnail, the latter only
\* after a successful compile and only with path, entrypoint and thumbnail
\* set; copy_files starts only after a successful validation and after
\* every typst run the manifest asks for has succeeded.
C5_StagesInOrder ==
    /\ Len(compilerCalls) <= 2
    /\ ValidationFailed => (compilerCalls = <<>> /\ fs = InitialFs(cfg) /\ visited = <<>>)
    /\ compilerCalls # <<>> =>
          /\ cfg.name = cfg.toml_dir.file_name
          /\ compilerCalls[1].command = "compile"
          /\ cfg.template.present
          /\ cfg.template.path # None
          /\ cfg.template.entrypoint # None
    /\ Len(compilerCalls) = 2 =>
          /\ compilerCalls[2].command = "thumbnail"
          /\ compilerCalls[1].success
          /\ cfg.template.thumbnail # None
    /\ CopyFilesStarted =>
          /\ cfg.name = cfg.toml_dir.file_name
          /\ \A i \in 1..Len(compilerCalls) : compilerCalls[i].success
          /\ Len(compilerCalls) =
                IF ~(cfg.template.present /\ cfg.template.path # None
                        /\ cfg.template.entrypoint # None) THEN 0
                ELSE IF cfg.template.thumbnail = None THEN 1
                ELSE 2

\* a run whose manifest asks for a thumbnail and whose template compile
\* failed: the run has ended with one typst invocation and nothing copied
C5_Witness ==
    /\ pc = "failed"
    /\ cfg.template.thumbnail # None
    /\ Len(compilerCalls) = 1
    /\ ~compilerCalls[1].success
    /\ ~CopyFilesStarted

\* the lines of a text: its pieces between newlines, without the empty
\* piece after a final newline, each without the carriage return that
\* stood before its newline
SourceLines(t) ==
    LET pieces == Split(t, "\n")
        n == IF pieces[Len(pieces)] = <<>> THEN Len(pieces) - 1 ELSE Len(pieces)
    IN
    [ i \in 1..n |->
        IF /\ i < Len(pieces)
           /\ pieces[i] # <<>>
           /\ pieces[i][Len(pieces[i])] = "\r"
        THEN SubSeq(pieces[i], 1, Len(pieces[i]) - 1)
        ELSE pieces[i] ]

\* the line with the whitespace at both of its ends removed
RECURSIVE Trimmed(_)
Trimmed(l) ==
    IF l # <<>> /\ l[1] \in {" ", "\t", "\n", "\r"} THEN Trimmed(Tail(l))
    ELSE IF l # <<>> /\ l[Len(l)] \in {" ", "\t", "\n", "\r"}
         THEN Trimmed(SubSeq(l, 1, Len(l) - 1))
    ELSE l

IsSchemaLine(l) ==
    /\ Len(Trimmed(l)) >= 8
    /\ SubSeq(Trimmed(l), 1, 8) = <<"#", ":", "s", "c", "h", "e", "m", "a">>

\* C8: the output typst.toml, cut at its newlines, is exactly the sequence
\* of the source's lines whose trimmed form does not begin with #:schema,
\* in their order (and is empty when no line is kept).
C8_ManifestStripped ==
    pc = "stripped" =>
        LET kept == SelectSeq(SourceLines(text), LAMBDA l : ~IsSchemaLine(l)) IN
        IF kept = <<>> THEN result = <<>> ELSE Split(result, "\n") = kept

\* a stripped text that held an indented #:schema line, a blank line and
\* another line
C8_Witness ==
    /\ pc = "stripped"
    /\ \E i \in 1..Len(SourceLines(text)) :
          /\ IsSchemaLine(SourceLines(text)[i])
          /\ SourceLines(text)[i][1] = " "
    /\ \E i \in 1..Len(SourceLines(text)) : SourceLines(text)[i] = <<>>
    /\ \E i \in 1..Len(SourceLines(text)) : SourceLines(text)[i] = <<"x">>
    /\ result # text
    /\ result # <<>>

\* The import statement to be rewritten, starting at index i of t:
\* #import, whitespace, and a quoted path made of one or more "../" and
\* then the entry point's file name, the closing quote right after it.
\* [ok, quote (index of the opening quote), last (index of the closing one)]
AscendingImport(t, i) ==
    LET q1 == SkipWhitespace(t, i + 7)
        nm == SkipUps(t, q1 + 1)
        q2 == nm + Len(FileName(cfg.entrypoint))
    IN
    IF /\ At(t, i, <<"#", "i", "m", "p", "o", "r", "t">>)
       /\ q1 > i + 7
       /\ At(t, q1, <<"\"">>)
       /\ nm > q1 + 1
       /\ At(t, nm, FileName(cfg.entrypoint))
       /\ At(t, q2, <<"\"">>)
    THEN [ok |-> TRUE, quote |-> q1, last |-> q2]
    ELSE [ok |-> FALSE, quote |-> 0, last |-> 0]

\* t from index i with the quoted path of every such statement replaced by
\* @preview/<name>:<version> and everything else kept as it is
RECURSIVE PathsReplacedFrom(_, _)
PathsReplacedFrom(t, i) ==
    LET m == AscendingImport(t, i) IN
    IF i > Len(t) THEN <<>>
    ELSE IF m.ok
         THEN SubSeq(t, i, m.quote)
                  \o <<"@", "p", "r", "e", "v", "i", "e", "w", "/">>
                  \o cfg.name \o <<":">> \o cfg.version \o <<"\"">>
                  \o PathsReplacedFrom(t, m.last + 1)
    ELSE <<t[i]>> \o PathsReplacedFrom(t, i + 1)

\* C3: the rewritten text is the source text with the quoted path of every
\* import of the entry point by an ascending path replaced by
\* @preview/<name>:<version>, and with nothing else changed.
C3_OnlyAscendingImportsRewritten ==
    pc \in {"rewritten", "rewritten twice"} => result = PathsReplacedFrom(text, 1)

\* C4: rewriting the rewritten text gives the rewritten text.
C4_RewriteIdempotent ==
    pc = "rewritten twice" => result2 = result

=============================================================================
